---- MODULE Spec2Model ----
(***************************************************************************)
(* Model of sync/rcu/rcu-linked-list.c: an RCU protected linked list of    *)
(* struct dog, filled through the sysfs attribute "dog" (dog_attr_store),  *)
(* dumped through the same attribute (dog_attr_show) and emptied, one head *)
(* entry per tick, by the timer callback timer_remove_dog.                 *)
(*                                                                         *)
(* Every statement of the three functions that touches shared state is one *)
(* step.  The kernel primitives the module calls are modelled by their     *)
(* documented behaviour:                                                   *)
(*   - spin_lock_irqsave disables the interrupts of the calling CPU, then  *)
(*     spins until the lock is free; spin_lock only spins;                 *)
(*   - the timer callback runs in interrupt context on a CPU whose         *)
(*     interrupts are enabled, and the task it interrupted does not run    *)
(*     until the callback returns;                                         *)
(*   - kfree_rcu frees the entry after a grace period: after every         *)
(*     read-side critical section in progress at the call has ended;       *)
(*   - del_timer_sync waits for a running callback and deactivates the     *)
(*     timer; kobject_put removes the attribute and waits for the show and *)
(*     store calls in flight;                                              *)
(*   - kstrndup, strsep, kstrtoint and snprintf work on strings, which are *)
(*     sequences of characters here: an input is cut and parsed, a line is *)
(*     formatted, character by character.                                  *)
(*                                                                         *)
(* Spec is the loaded module with everything that can run in it.  LockSpec *)
(* and RcuSpec are parts of it with the fairness the scheduling gives.     *)
(* StoreSpec is the attribute with every kind of input, ShowSpec is a show *)
(* of a long list, LoadSpec starts at rcu_linked_list_init.                *)
(***************************************************************************)
EXTENDS Integers, Sequences, FiniteSets, TLC

\* Bounds of the model.
NumWriters == 2      \* tasks that call dog_attr_store
NumReaders == 1      \* tasks that call dog_attr_show
NumCPUs == 2         \* CPUs a store or the timer callback can run on
MaxEntries == 2      \* struct dog objects kmalloc can hand out in one run
NumRcuWriters == 1   \* writers of the specification of the grace periods
MaxShowEntries == 61 \* entries of the longest list a show traverses on its own

Writers == 1..NumWriters
Readers == 1..NumReaders
CPUs == 1..NumCPUs
Entries == 1..MaxEntries

\* &dog_list, the list head; entries are 1..MaxEntries.
HEAD == 0
Nodes == {HEAD} \cup Entries
\* Content of memory kmalloc returned and nobody wrote yet: of a pointer or
\* an integer, and of the breed pointer.
Garbage == -1
GarbageStr == <<"garbage">>
\* LIST_POISON2, what list_del_rcu leaves in entry->prev.
LIST_POISON2 == -2
\* Owner of list_update_lock: nobody, the timer callback, or a writer.
Unlocked == <<"none", 0>>
TimerCtx == <<"timer", 0>>
StoreCtx(w) == <<"store", w>>

\* #define DOG_ENTRY_NBYTES 64: the bytes kstrndup copies of an input and the
\* size snprintf is given for a line.
DOG_ENTRY_NBYTES == 64
\* char *dog_attr[3]: the slots for the tokens of an input.
DogAttrSlots == 3
\* The largest and the smallest int, the type of dog_age and dog_training.
INT_MAX == 2147483647
INT_MIN == -INT_MAX - 1
\* The size of the buffer sysfs hands to dog_attr_show: one page.
PAGE_SIZE == 4096

\* A breed of n characters.
Breed(n) == [i \in 1..n |-> "x"]

\* What the user writes to the attribute, a string as a sequence of
\* characters: two well-formed lines.  These are the inputs of the
\* specifications of the whole module: a line that is rejected returns
\* before the call touches anything shared, a line that is accepted is
\* stored the way these are.  StoreSpec has the inputs of every other kind.
Inputs ==
  { <<"G", "o", "l", "d", "e", "n", ",", "3", ",", "1">>,
    <<"L", "a", "b", "r", "a", "d", "o", "r", ",", "1", "2", ",", "0">> }

\* More well-formed lines: an age with a sign and a leading zero and the
\* newline echo adds; a line that fills DOG_ENTRY_NBYTES exactly when it is
\* formatted (63 characters and the terminator); a line that is longer than
\* DOG_ENTRY_NBYTES when it is formatted.
FittingInputs ==
  { <<"R", "e", "x", ",", "-", "0", "5", ",", "1", "\n">>,
    Breed(54) \o <<",", "3", ",", "0">> }
LongInputs == { Breed(59) \o <<",", "3", ",", "0">> }

\* Lines that are not well-formed: an age that is no number; one field; two
\* fields; a flag that is no binary number; an age that does not fit an
\* int; a flag followed by a character, the input being one byte longer
\* than DOG_ENTRY_NBYTES.
MalformedInputs ==
  { <<"P", "u", "g", ",", "x", ",", "1">>,
    <<"O", "n", "l", "y", "B", "r", "e", "e", "d">>,
    <<"P", "u", "g", ",", "3">>,
    <<"P", "u", "g", ",", "3", ",", "2">>,
    <<"P", "u", "g", ",", "9", "9", "9", "9", "9", "9", "9", "9", "9", "9", "9", ",", "1">>,
    Breed(60) \o <<",", "3", ",", "1", "x">> }

\* A line of four fields.
FourFieldInputs == { <<"P", "u", "g", ",", "3", ",", "1", ",", "9">> }

StoreInputs ==
  Inputs \cup FittingInputs \cup LongInputs \cup MalformedInputs \cup FourFieldInputs

Min(a, b) == IF a < b THEN a ELSE b

----------------------------------------------------------------------------
\* The string functions dog_attr_store and dog_attr_show call.

\* kstrndup(buf, max): a copy of the first max bytes of the string at most.
kstrndup(s, max) == SubSeq(s, 1, Min(Len(s), max))

\* The position of the first comma of s, 0 when it has none.
CommaAt(s) ==
  IF \E i \in 1..Len(s) : s[i] = ","
    THEN CHOOSE i \in 1..Len(s) : s[i] = "," /\ \A j \in 1..(i - 1) : s[j] # ","
    ELSE 0

\* The tokens the loop of strsep(&ibuf, ",") yields, in order: the text
\* between the commas, empty tokens included.
RECURSIVE strsep(_)
strsep(s) ==
  LET c == CommaAt(s) IN
  IF c = 0 THEN <<s>>
  ELSE <<SubSeq(s, 1, c - 1)>> \o strsep(SubSeq(s, c + 1, Len(s)))

Digits == <<"0", "1", "2", "3", "4", "5", "6", "7", "8", "9">>

\* The value of a digit, -1 for any other character.
DigitValue(c) ==
  IF \E d \in 1..Len(Digits) : Digits[d] = c
    THEN (CHOOSE d \in 1..Len(Digits) : Digits[d] = c) - 1
    ELSE -1

\* _parse_integer: the number of leading characters that are digits of the
\* base.
RECURSIVE LeadDigits(_, _)
LeadDigits(s, base) ==
  IF Len(s) = 0 \/ DigitValue(s[1]) \notin 0..(base - 1)
    THEN 0
    ELSE 1 + LeadDigits(Tail(s), base)

\* The value of a string of digits, negated so that the magnitude of
\* INT_MIN fits; 1 when the magnitude exceeds that of INT_MIN.
RECURSIVE NegValue(_, _, _)
NegValue(s, base, acc) ==
  IF Len(s) = 0 THEN acc
  ELSE LET d == DigitValue(s[1]) IN
       IF acc < (INT_MIN + d + base - 1) \div base
         THEN 1
         ELSE NegValue(Tail(s), base, acc * base - d)

\* kstrtoint(s, base, &res): an optional sign, at least one digit of the
\* base, an optional newline and nothing else, or -EINVAL; a value that fits
\* an int, or -ERANGE.  (For digits that overflow 64 bits the kernel reports
\* -ERANGE before it looks at what follows them; such inputs are rejected
\* either way.)
kstrtoint(s, base) ==
  LET neg == Len(s) > 0 /\ s[1] = "-"
      body == IF Len(s) > 0 /\ s[1] \in {"-", "+"} THEN Tail(s) ELSE s
      n == LeadDigits(body, base)
      rest == SubSeq(body, n + 1, Len(body))
      nv == NegValue(SubSeq(body, 1, n), base, 0)
  IN IF n = 0 \/ Len(rest) > 1 \/ (Len(rest) = 1 /\ rest[1] # "\n")
       THEN [err |-> "EINVAL", val |-> 0]
     ELSE IF nv = 1 \/ (~neg /\ nv = INT_MIN)
       THEN [err |-> "ERANGE", val |-> 0]
     ELSE [err |-> "OK", val |-> IF neg THEN nv ELSE -nv]

\* No call in progress.
NoInput == [raw |-> <<>>, err |-> "OK", breed |-> <<>>, age |-> 0, flag |-> 0]

\* Lines 113-121 on the tokens in dog_attr[0..2]: -EINVAL for fewer than
\* three tokens, the error of kstrtoint for the age (base 10) or for the flag
\* (base 2), else the three fields.
dog_attr_parse(raw, tok) ==
  IF Len(tok) < DogAttrSlots
    THEN [NoInput EXCEPT !.raw = raw, !.err = "EINVAL"]
  ELSE LET a == kstrtoint(tok[2], 10)
           t == kstrtoint(tok[3], 2)
       IN IF a.err # "OK" THEN [NoInput EXCEPT !.raw = raw, !.err = a.err]
          ELSE IF t.err # "OK" THEN [NoInput EXCEPT !.raw = raw, !.err = t.err]
          ELSE [raw |-> raw, err |-> "OK", breed |-> tok[1], age |-> a.val,
                flag |-> t.val]

\* Lines 108-121 for every input of the model: the number of tokens the
\* loop of line 111 stores and the outcome of lines 113-121.
dog_attr_store_parse ==
  [raw \in StoreInputs |->
     LET tok == strsep(kstrndup(raw, DOG_ENTRY_NBYTES))
     IN [ntok |-> Len(tok), in |-> dog_attr_parse(raw, tok)]]

\* The decimal digits of -m, for m <= 0.
RECURSIVE NegDigits(_)
NegDigits(m) ==
  LET q == (m + 9) \div 10 IN
  (IF q = 0 THEN <<>> ELSE NegDigits(q)) \o <<Digits[q * 10 - m + 1]>>

\* The conversion %d of snprintf.
itoa(n) == IF n < 0 THEN <<"-">> \o NegDigits(n) ELSE NegDigits(-n)

\* A faulty variant of training_text: every dog is easy to train.
training_text_true(b) == <<"t", "r", "u", "e">>

\* entry->training_easy ? "true" : "false"
training_text(b) ==
  IF b # 0 THEN <<"t", "r", "u", "e">> ELSE <<"f", "a", "l", "s", "e">>

\* The text of the format "%s %d %s\n" for the fields of a line.
FormatLine(l) ==
  l.breed \o <<" ">> \o itoa(l.age) \o <<" ">> \o training_text(l.training_easy)
    \o <<"\n">>

\* snprintf(dst, size, ...): what it returns, the length of the whole text,
\* and what it writes before the terminator, size - 1 characters at most.
snprintf_return(size, text) == Len(text)
snprintf_written(size, text) == SubSeq(text, 1, Min(Len(text), size - 1))

VARIABLES
  dog_list,           \* [next, prev]: the list_head of dog_list and of every entry
  breed, age, training_easy,   \* the fields of every struct dog
  nalloc,             \* struct dog objects allocated so far
  dog_list_size,
  list_update_lock,   \* its owner
  irq_off,            \* CPUs whose interrupts are disabled
  store_pc, store_in, store_entry, store_cpu,   \* dog_attr_store, per writer:
                      \* store_in is the input and what the parsing made of it
  show_pc, show_entry, show_out,                \* dog_attr_show, per reader:
                      \* show_out is the fields of the lines formatted so far
  timer_pc, timer_entry, timer_cpu,             \* timer_remove_dog
  removal_timer,      \* TRUE when the timer is armed
  rcu_pending,        \* entries given to kfree_rcu and not freed yet
  rcu_wait,           \* per entry: the readers its grace period waits for
  freed,              \* entries kfree was called on
  init_pc,            \* rcu_linked_list_init
  exit_pc,            \* rcu_linked_list_exit
  \* History, read by the properties only.
  appended,           \* entries in the order list_add_tail_rcu published them
  unlinked,           \* entries in the order list_del_rcu unlinked them
  retired,            \* entries in the order kfree_rcu took them
  input_of,           \* per entry: the input its store was called with
  pre_unlink,         \* per entry: readers whose critical section began before its unlink
  uaf,                \* a reader dereferenced a freed entry
  init_created,       \* what rcu_linked_list_init created, in order
  init_undone         \* what rcu_linked_list_init released or cancelled, in order

list_vars == <<dog_list, breed, age, training_easy, nalloc, dog_list_size>>
lock_vars == <<list_update_lock, irq_off>>
store_vars == <<store_pc, store_in, store_entry, store_cpu>>
show_vars == <<show_pc, show_entry, show_out>>
timer_vars == <<timer_pc, timer_entry, timer_cpu, removal_timer>>
rcu_vars == <<rcu_pending, rcu_wait, freed>>
hist_vars == <<appended, unlinked, retired, input_of, pre_unlink, uaf>>
init_vars == <<init_pc, init_created, init_undone>>
vars == <<list_vars, lock_vars, store_vars, show_vars, timer_vars, rcu_vars,
          init_vars, exit_pc, hist_vars>>

----------------------------------------------------------------------------
\* The list primitives of <linux/rculist.h>, on a [next, prev] pair.

\* LIST_HEAD(dog_list): the head points to itself; entries are not allocated.
EmptyList ==
  [next |-> [n \in Nodes |-> IF n = HEAD THEN HEAD ELSE Garbage],
   prev |-> [n \in Nodes |-> IF n = HEAD THEN HEAD ELSE Garbage]]

\* A faulty variant of list_empty: the list is never reported empty.
list_empty_never(l) == FALSE

list_empty(l) == l.next[HEAD] = HEAD

list_first_entry(l) == l.next[HEAD]

\* A faulty variant of list_add_tail_rcu: list_add_rcu, which inserts after the head.
list_add_rcu(l, new) ==
  LET first == l.next[HEAD] IN
  [next |-> [l.next EXCEPT ![new] = first, ![HEAD] = new],
   prev |-> [[l.prev EXCEPT ![new] = HEAD] EXCEPT ![first] = new]]

\* new->next = head; new->prev = head->prev; publish prev->next = new;
\* head->prev = new.
list_add_tail_rcu(l, new) ==
  LET last == l.prev[HEAD] IN
  [next |-> [[l.next EXCEPT ![new] = HEAD] EXCEPT ![last] = new],
   prev |-> [l.prev EXCEPT ![new] = last, ![HEAD] = new]]

\* A faulty variant of list_del_rcu: the entry stays linked.
list_del_rcu_nothing(l, e) == l

\* next->prev = prev; prev->next = next; entry->prev = LIST_POISON2.  The
\* entry keeps its next pointer for the readers that stand on it.
list_del_rcu(l, e) ==
  LET p == l.prev[e]
      n == l.next[e]
  IN IF p \in Nodes /\ n \in Nodes
       THEN [next |-> [l.next EXCEPT ![p] = n],
             prev |-> [[l.prev EXCEPT ![n] = p] EXCEPT ![e] = LIST_POISON2]]
       ELSE l

\* The entries a traversal from the head meets, in order.
RECURSIVE Walk(_, _, _)
Walk(l, n, fuel) ==
  IF n = HEAD \/ n \notin Nodes \/ fuel = 0
    THEN <<>>
    ELSE <<n>> \o Walk(l, l.next[n], fuel - 1)

ListSeq(l) == Walk(l, l.next[HEAD], MaxEntries + 1)

Range(s) == {s[i] : i \in 1..Len(s)}

Linked == Range(ListSeq(dog_list))

----------------------------------------------------------------------------
\* LIST_HEAD(dog_list) and dog_list_size: no entry is allocated.
InitEmptyList ==
  /\ dog_list = EmptyList
  /\ breed = [e \in Entries |-> GarbageStr]
  /\ age = [e \in Entries |-> Garbage]
  /\ training_easy = [e \in Entries |-> Garbage]
  /\ nalloc = 0
  /\ dog_list_size = 0
  /\ appended = <<>>
  /\ input_of = [e \in Entries |-> NoInput]

\* The lock is free and nothing runs: no store, no show, no callback, no
\* exit.
InitContexts ==
  /\ list_update_lock = Unlocked
  /\ irq_off = {}
  /\ store_pc = [w \in Writers |-> "idle"]
  /\ store_in = [w \in Writers |-> NoInput]
  /\ store_entry = [w \in Writers |-> HEAD]
  /\ store_cpu = [w \in Writers |-> 0]
  /\ show_pc = [r \in Readers |-> "idle"]
  /\ show_entry = [r \in Readers |-> HEAD]
  /\ show_out = [r \in Readers |-> <<>>]
  /\ timer_pc = "idle"
  /\ timer_entry = HEAD
  /\ timer_cpu = 0
  /\ rcu_pending = {}
  /\ rcu_wait = [e \in Entries |-> {}]
  /\ freed = {}
  /\ exit_pc = "loaded"
  /\ unlinked = <<>>
  /\ retired = <<>>
  /\ pre_unlink = [e \in Entries |-> {}]
  /\ uaf = FALSE

\* rcu_linked_list_init returned 0: the kobject and its attribute exist and
\* the timer is armed.
InitLoaded ==
  /\ removal_timer = TRUE
  /\ init_pc = "loaded"
  /\ init_created = <<"kobject", "group", "timer">>
  /\ init_undone = <<>>

\* The module right after it is loaded.
Init == InitEmptyList /\ InitContexts /\ InitLoaded

\* The module is being loaded: rcu_linked_list_init is at its first call,
\* the static removal_timer is zeroed.
LoadInit ==
  /\ InitEmptyList
  /\ InitContexts
  /\ removal_timer = FALSE
  /\ init_pc = "kobject_create_and_add"
  /\ init_created = <<>>
  /\ init_undone = <<>>

\* dog_list after n appends: the entries 1..n in this order.
FullList(n) ==
  [next |-> [k \in 0..n |-> IF k = n THEN HEAD ELSE k + 1],
   prev |-> [k \in 0..n |-> IF k = 0 THEN n ELSE k - 1]]

\* The module after n stores of one input returned within one period of the
\* timer, n up to MaxShowEntries: the list holds their n entries.
ShowInit ==
  /\ \E n \in 0..MaxShowEntries, raw \in Inputs \cup LongInputs :
       LET in == dog_attr_store_parse[raw].in IN
       /\ dog_list = FullList(n)
       /\ breed = [e \in 1..n |-> in.breed]
       /\ age = [e \in 1..n |-> in.age]
       /\ training_easy = [e \in 1..n |-> IF in.flag # 0 THEN 1 ELSE 0]
       /\ nalloc = n
       /\ dog_list_size = n
       /\ appended = [i \in 1..n |-> i]
       /\ input_of = [e \in 1..n |-> in]
  /\ InitContexts
  /\ InitLoaded

----------------------------------------------------------------------------
\* dog_attr_store, one call per writer at a time.

\* Whether the task of writer w is interrupted by the timer callback, which
\* runs on top of whatever its CPU was running.
Preempted(w) == store_cpu[w] # 0 /\ timer_pc # "idle" /\ timer_cpu = store_cpu[w]

\* A CPU writer w can be running on: no other writer is pinned to it with
\* preemption disabled and the timer callback does not occupy it.
CanRunOn(w, c) ==
  /\ \A o \in Writers \ {w} : store_cpu[o] # c
  /\ timer_pc = "idle" \/ timer_cpu # c

\* A faulty variant of StoreNext: the entry is linked before its fields are written.
StoreNext_publish_first(pc) ==
  CASE pc = "kmalloc" -> "irqsave"
    [] pc = "irqsave" -> "spin"
    [] pc = "spin" -> "list_add"
    [] pc = "list_add" -> "size"
    [] pc = "size" -> "unlock"
    [] pc = "unlock" -> "breed"
    [] pc = "breed" -> "age"
    [] pc = "age" -> "training_easy"
    [] pc = "training_easy" -> "return"

\* The order of the statements of dog_attr_store after the input is parsed.
StoreNext(pc) ==
  CASE pc = "kmalloc" -> "breed"
    [] pc = "breed" -> "age"
    [] pc = "age" -> "training_easy"
    [] pc = "training_easy" -> "irqsave"
    [] pc = "irqsave" -> "spin"
    [] pc = "spin" -> "list_add"
    [] pc = "list_add" -> "size"
    [] pc = "size" -> "unlock"
    [] pc = "unlock" -> "return"

\* A faulty variant of local_irq_save: interrupts stay enabled, as with spin_lock.
local_irq_keep(off, c) == off

\* The first half of spin_lock_irqsave: interrupts of this CPU go off.
local_irq_save(off, c) == off \cup {c}

\* A faulty variant of spin_can_lock: the lock is taken whoever holds it.
spin_always(lock) == TRUE

\* The spinning of spin_lock and spin_lock_irqsave ends when the lock is free.
spin_can_lock(lock) == lock = Unlocked

\* The sysfs attribute exists from the return of rcu_linked_list_init until
\* kobject_put removed it.
AttrLive == init_pc = "loaded" /\ exit_pc \notin {"drain", "done"}

\* Lines 108-121: the input is copied, cut into tokens and parsed.  The loop
\* stores every token in dog_attr[idx++] and dog_attr has DogAttrSlots
\* slots: with more tokens it writes beyond the array, on the stack of the
\* call.  What follows is then undefined: either the stray writes hit nothing
\* the call reads later and it goes on with dog_attr[0..2], or they hit the
\* stack canary or a saved register and the task dies in the kernel.
StoreBegin(w, raw) ==
  /\ store_pc[w] = "idle"
  /\ AttrLive
  /\ LET ntok == dog_attr_store_parse[raw].ntok
         in == dog_attr_store_parse[raw].in
     IN \/ /\ store_in' = [store_in EXCEPT ![w] = in]
           /\ store_pc' = [store_pc EXCEPT ![w] =
                             IF in.err = "OK" THEN "kmalloc" ELSE "return_err"]
        \/ /\ ntok > DogAttrSlots
           /\ store_in' = [store_in EXCEPT ![w] = [NoInput EXCEPT !.raw = raw]]
           /\ store_pc' = [store_pc EXCEPT ![w] = "oops"]
  /\ UNCHANGED <<list_vars, lock_vars, store_entry, store_cpu, show_vars,
                 timer_vars, rcu_vars, init_vars, exit_pc, hist_vars>>

\* return -EINVAL, or return err: the error is in store_in[w].err.
StoreReturnErr(w) ==
  /\ store_pc[w] = "return_err"
  /\ store_pc' = [store_pc EXCEPT ![w] = "idle"]
  /\ store_in' = [store_in EXCEPT ![w] = NoInput]
  /\ UNCHANGED <<list_vars, lock_vars, store_entry, store_cpu, show_vars,
                 timer_vars, rcu_vars, init_vars, exit_pc, hist_vars>>

StoreKmalloc(w) ==
  /\ store_pc[w] = "kmalloc"
  /\ nalloc < MaxEntries
  /\ nalloc' = nalloc + 1
  /\ store_entry' = [store_entry EXCEPT ![w] = nalloc + 1]
  /\ input_of' = [input_of EXCEPT ![nalloc + 1] = store_in[w]]
  /\ store_pc' = [store_pc EXCEPT ![w] = StoreNext("kmalloc")]
  /\ UNCHANGED <<dog_list, breed, age, training_easy, dog_list_size, lock_vars,
                 store_in, store_cpu, show_vars, timer_vars, rcu_vars, init_vars, exit_pc,
                 appended, unlinked, retired, pre_unlink, uaf>>

\* kmalloc returned NULL: return -ENOMEM.
StoreNoMem(w) ==
  /\ store_pc[w] = "kmalloc"
  /\ store_pc' = [store_pc EXCEPT ![w] = "idle"]
  /\ store_in' = [store_in EXCEPT ![w] = NoInput]
  /\ UNCHANGED <<list_vars, lock_vars, store_entry, store_cpu, show_vars,
                 timer_vars, rcu_vars, init_vars, exit_pc, hist_vars>>

StoreBreed(w) ==
  /\ store_pc[w] = "breed"
  /\ breed' = [breed EXCEPT ![store_entry[w]] = store_in[w].breed]
  /\ store_pc' = [store_pc EXCEPT ![w] = StoreNext("breed")]
  /\ UNCHANGED <<dog_list, age, training_easy, nalloc, dog_list_size, lock_vars,
                 store_in, store_entry, store_cpu, show_vars, timer_vars,
                 rcu_vars, init_vars, exit_pc, hist_vars>>

StoreAge(w) ==
  /\ store_pc[w] = "age"
  /\ age' = [age EXCEPT ![store_entry[w]] = store_in[w].age]
  /\ store_pc' = [store_pc EXCEPT ![w] = StoreNext("age")]
  /\ UNCHANGED <<dog_list, breed, training_easy, nalloc, dog_list_size,
                 lock_vars, store_in, store_entry, store_cpu, show_vars,
                 timer_vars, rcu_vars, init_vars, exit_pc, hist_vars>>

StoreTraining(w) ==
  /\ store_pc[w] = "training_easy"
  /\ training_easy' = [training_easy EXCEPT ![store_entry[w]] =
                         IF store_in[w].flag # 0 THEN 1 ELSE 0]
  /\ store_pc' = [store_pc EXCEPT ![w] = StoreNext("training_easy")]
  /\ UNCHANGED <<dog_list, breed, age, nalloc, dog_list_size, lock_vars,
                 store_in, store_entry, store_cpu, show_vars, timer_vars,
                 rcu_vars, init_vars, exit_pc, hist_vars>>

\* spin_lock_irqsave, first half, on the CPU the writer runs on.
StoreIrqSave(w, c) ==
  /\ store_pc[w] = "irqsave"
  /\ c \notin irq_off
  /\ CanRunOn(w, c)
  /\ irq_off' = local_irq_save(irq_off, c)
  /\ store_cpu' = [store_cpu EXCEPT ![w] = c]
  /\ store_pc' = [store_pc EXCEPT ![w] = StoreNext("irqsave")]
  /\ UNCHANGED <<list_vars, list_update_lock, store_in, store_entry, show_vars,
                 timer_vars, rcu_vars, init_vars, exit_pc, hist_vars>>

\* spin_lock_irqsave, second half.
StoreSpin(w) ==
  /\ store_pc[w] = "spin"
  /\ ~Preempted(w)
  /\ spin_can_lock(list_update_lock)
  /\ list_update_lock' = StoreCtx(w)
  /\ store_pc' = [store_pc EXCEPT ![w] = StoreNext("spin")]
  /\ UNCHANGED <<list_vars, irq_off, store_in, store_entry, store_cpu,
                 show_vars, timer_vars, rcu_vars, init_vars, exit_pc, hist_vars>>

StoreListAdd(w) ==
  /\ store_pc[w] = "list_add"
  /\ ~Preempted(w)
  /\ dog_list' = list_add_tail_rcu(dog_list, store_entry[w])
  /\ appended' = Append(appended, store_entry[w])
  /\ store_pc' = [store_pc EXCEPT ![w] = StoreNext("list_add")]
  /\ UNCHANGED <<breed, age, training_easy, nalloc, dog_list_size, lock_vars,
                 store_in, store_entry, store_cpu, show_vars, timer_vars,
                 rcu_vars, init_vars, exit_pc, unlinked, retired, input_of, pre_unlink, uaf>>

StoreSize(w) ==
  /\ store_pc[w] = "size"
  /\ ~Preempted(w)
  /\ dog_list_size' = dog_list_size + 1
  /\ store_pc' = [store_pc EXCEPT ![w] = StoreNext("size")]
  /\ UNCHANGED <<dog_list, breed, age, training_easy, nalloc, lock_vars,
                 store_in, store_entry, store_cpu, show_vars, timer_vars,
                 rcu_vars, init_vars, exit_pc, hist_vars>>

\* spin_unlock_irqrestore: the lock is released and the interrupts are back.
StoreUnlock(w) ==
  /\ store_pc[w] = "unlock"
  /\ ~Preempted(w)
  /\ list_update_lock' = Unlocked
  /\ irq_off' = irq_off \ {store_cpu[w]}
  /\ store_cpu' = [store_cpu EXCEPT ![w] = 0]
  /\ store_pc' = [store_pc EXCEPT ![w] = StoreNext("unlock")]
  /\ UNCHANGED <<list_vars, store_in, store_entry, show_vars, timer_vars,
                 rcu_vars, init_vars, exit_pc, hist_vars>>

\* return count.
StoreReturn(w) ==
  /\ store_pc[w] = "return"
  /\ store_pc' = [store_pc EXCEPT ![w] = "idle"]
  /\ store_in' = [store_in EXCEPT ![w] = NoInput]
  /\ store_entry' = [store_entry EXCEPT ![w] = HEAD]
  /\ UNCHANGED <<list_vars, lock_vars, store_cpu, show_vars, timer_vars,
                 rcu_vars, init_vars, exit_pc, hist_vars>>

\* The steps of a call in progress whose input was accepted.
StoreStep(w) ==
  \/ StoreKmalloc(w)
  \/ StoreBreed(w)
  \/ StoreAge(w)
  \/ StoreTraining(w)
  \/ \E c \in CPUs : StoreIrqSave(w, c)
  \/ StoreSpin(w)
  \/ StoreListAdd(w)
  \/ StoreSize(w)
  \/ StoreUnlock(w)
  \/ StoreReturn(w)

----------------------------------------------------------------------------
\* dog_attr_show, one call per reader at a time.

\* The readers between rcu_read_lock and rcu_read_unlock.
ReadersInCS(pcs) == {r \in Readers : pcs[r] \in {"first", "body", "next", "unlock"}}

\* A faulty variant of rcu_read_unlock: the critical section is never reported over.
rcu_read_unlock_never(waits, r) == waits

\* rcu_read_unlock: no grace period waits for this reader any more.
rcu_read_unlock(waits, r) == [e \in Entries |-> waits[e] \ {r}]

\* The line snprintf formats, as the fields it read.
Line(e) == [entry |-> e, breed |-> breed[e], age |-> age[e],
            training_easy |-> training_easy[e]]

\* nbytes after the lines formatted so far: the sum of what snprintf
\* returned.
RECURSIVE nbytes(_)
nbytes(lines) ==
  IF Len(lines) = 0 THEN 0
  ELSE nbytes(SubSeq(lines, 1, Len(lines) - 1))
         + snprintf_return(DOG_ENTRY_NBYTES, FormatLine(lines[Len(lines)]))

\* &buf[nbytes] of the i-th call of snprintf: the offset its text starts at.
ShowStart(lines, i) == nbytes(SubSeq(lines, 1, i - 1))

\* The characters the i-th call of snprintf writes there, followed by the
\* terminator.
ShowWritten(lines, i) == snprintf_written(DOG_ENTRY_NBYTES, FormatLine(lines[i]))

\* rcu_read_lock.
ShowLock(r) ==
  /\ show_pc[r] = "idle"
  /\ AttrLive
  /\ show_pc' = [show_pc EXCEPT ![r] = "first"]
  /\ show_out' = [show_out EXCEPT ![r] = <<>>]
  /\ UNCHANGED <<list_vars, lock_vars, store_vars, show_entry, timer_vars,
                 rcu_vars, init_vars, exit_pc, hist_vars>>

\* list_for_each_entry_rcu, initialisation: entry = dog_list.next.
ShowFirst(r) ==
  /\ show_pc[r] = "first"
  /\ show_entry' = [show_entry EXCEPT ![r] = dog_list.next[HEAD]]
  /\ show_pc' = [show_pc EXCEPT ![r] = "body"]
  /\ UNCHANGED <<list_vars, lock_vars, store_vars, show_out, timer_vars,
                 rcu_vars, init_vars, exit_pc, hist_vars>>

\* The loop test and, when the entry is not the head, the snprintf of its
\* three fields.
ShowBody(r) ==
  /\ show_pc[r] = "body"
  /\ IF show_entry[r] \notin DOMAIN breed
       THEN /\ show_pc' = [show_pc EXCEPT ![r] = "unlock"]
            /\ UNCHANGED <<show_out, uaf>>
       ELSE /\ show_out' = [show_out EXCEPT ![r] = Append(@, Line(show_entry[r]))]
            /\ uaf' = (uaf \/ show_entry[r] \in freed)
            /\ show_pc' = [show_pc EXCEPT ![r] = "next"]
  /\ UNCHANGED <<list_vars, lock_vars, store_vars, show_entry, timer_vars,
                 rcu_vars, init_vars, exit_pc, appended, unlinked, retired, input_of,
                 pre_unlink>>

\* list_for_each_entry_rcu, step: entry = entry->list.next.
ShowNextEntry(r) ==
  /\ show_pc[r] = "next"
  /\ show_entry' = [show_entry EXCEPT ![r] = dog_list.next[show_entry[r]]]
  /\ uaf' = (uaf \/ show_entry[r] \in freed)
  /\ show_pc' = [show_pc EXCEPT ![r] = "body"]
  /\ UNCHANGED <<list_vars, lock_vars, store_vars, show_out, timer_vars,
                 rcu_vars, init_vars, exit_pc, appended, unlinked, retired, input_of,
                 pre_unlink>>

\* rcu_read_unlock and return nbytes.
ShowUnlock(r) ==
  /\ show_pc[r] = "unlock"
  /\ rcu_wait' = rcu_read_unlock(rcu_wait, r)
  /\ pre_unlink' = [e \in Entries |-> pre_unlink[e] \ {r}]
  /\ show_pc' = [show_pc EXCEPT ![r] = "idle"]
  /\ show_entry' = [show_entry EXCEPT ![r] = HEAD]
  /\ show_out' = [show_out EXCEPT ![r] = <<>>]
  /\ UNCHANGED <<list_vars, lock_vars, store_vars, timer_vars, rcu_pending,
                 freed, init_vars, exit_pc, appended, unlinked, retired, input_of, uaf>>

ShowStep(r) ==
  \/ ShowFirst(r)
  \/ ShowBody(r)
  \/ ShowNextEntry(r)
  \/ ShowUnlock(r)

----------------------------------------------------------------------------
\* timer_remove_dog, the callback of removal_timer.

\* A faulty variant of kfree_rcu_wait: kfree at once, no grace period.
kfree_no_wait(pcs) == {}

\* kfree_rcu: the grace period of the entry covers every read-side critical
\* section in progress at the call.
kfree_rcu_wait(pcs) == ReadersInCS(pcs)

\* A faulty variant of TimerVictim: the newest entry is taken.
list_last_entry(l) == l.prev[HEAD]

\* The entry the callback removes.
TimerVictim(l) == list_first_entry(l)

\* A faulty variant of mod_timer: the timer is left as it was.
mod_timer_skip(pending) == pending

\* mod_timer(&removal_timer, ...): the timer is pending afterwards.
mod_timer(pending) == TRUE

\* The timer expires: the callback starts on a CPU that takes interrupts.
TimerFire(c) ==
  /\ removal_timer
  /\ timer_pc = "idle"
  /\ c \notin irq_off
  /\ removal_timer' = FALSE
  /\ timer_cpu' = c
  /\ timer_pc' = "list_empty"
  /\ UNCHANGED <<list_vars, lock_vars, store_vars, show_vars, timer_entry,
                 rcu_vars, init_vars, exit_pc, hist_vars>>

\* if (!list_empty(&dog_list)), read without the lock.
TimerListEmpty ==
  /\ timer_pc = "list_empty"
  /\ timer_pc' = IF list_empty(dog_list) THEN "mod_timer" ELSE "spin_lock"
  /\ UNCHANGED <<list_vars, lock_vars, store_vars, show_vars, timer_entry,
                 timer_cpu, removal_timer, rcu_vars, init_vars, exit_pc, hist_vars>>

TimerSpinLock ==
  /\ timer_pc = "spin_lock"
  /\ spin_can_lock(list_update_lock)
  /\ list_update_lock' = TimerCtx
  /\ timer_pc' = "list_first_entry"
  /\ UNCHANGED <<list_vars, irq_off, store_vars, show_vars, timer_entry,
                 timer_cpu, removal_timer, rcu_vars, init_vars, exit_pc, hist_vars>>

TimerFirstEntry ==
  /\ timer_pc = "list_first_entry"
  /\ timer_entry' = TimerVictim(dog_list)
  /\ timer_pc' = "list_del_rcu"
  /\ UNCHANGED <<list_vars, lock_vars, store_vars, show_vars, timer_cpu,
                 removal_timer, rcu_vars, init_vars, exit_pc, hist_vars>>

TimerListDel ==
  /\ timer_pc = "list_del_rcu"
  /\ dog_list' = list_del_rcu(dog_list, timer_entry)
  /\ unlinked' = Append(unlinked, timer_entry)
  /\ pre_unlink' = [e \in Entries |->
                      IF e = timer_entry THEN ReadersInCS(show_pc) ELSE pre_unlink[e]]
  /\ timer_pc' = "kfree_rcu"
  /\ UNCHANGED <<breed, age, training_easy, nalloc, dog_list_size, lock_vars,
                 store_vars, show_vars, timer_entry, timer_cpu, removal_timer,
                 rcu_vars, init_vars, exit_pc, appended, retired, input_of, uaf>>

TimerKfreeRcu ==
  /\ timer_pc = "kfree_rcu"
  /\ rcu_pending' = rcu_pending \cup ({timer_entry} \cap Entries)
  /\ rcu_wait' = [e \in Entries |->
                    IF e = timer_entry THEN kfree_rcu_wait(show_pc) ELSE rcu_wait[e]]
  /\ retired' = Append(retired, timer_entry)
  /\ timer_pc' = "spin_unlock"
  /\ UNCHANGED <<list_vars, lock_vars, store_vars, show_vars, timer_entry,
                 timer_cpu, removal_timer, freed, init_vars, exit_pc, appended, unlinked,
                 input_of, pre_unlink, uaf>>

TimerSpinUnlock ==
  /\ timer_pc = "spin_unlock"
  /\ list_update_lock' = Unlocked
  /\ timer_pc' = "mod_timer"
  /\ UNCHANGED <<list_vars, irq_off, store_vars, show_vars, timer_entry,
                 timer_cpu, removal_timer, rcu_vars, init_vars, exit_pc, hist_vars>>

\* mod_timer re-arms the timer and the callback returns.
TimerModTimer ==
  /\ timer_pc = "mod_timer"
  /\ removal_timer' = mod_timer(removal_timer)
  /\ timer_pc' = "idle"
  /\ timer_entry' = HEAD
  /\ timer_cpu' = 0
  /\ UNCHANGED <<list_vars, lock_vars, store_vars, show_vars, rcu_vars,
                 init_vars, exit_pc, hist_vars>>

TimerStep ==
  \/ TimerListEmpty
  \/ TimerSpinLock
  \/ TimerFirstEntry
  \/ TimerListDel
  \/ TimerKfreeRcu
  \/ TimerSpinUnlock
  \/ TimerModTimer

----------------------------------------------------------------------------
\* The RCU core: the callback kfree_rcu queued runs after the grace period.
RcuReclaim(e) ==
  /\ e \in rcu_pending
  /\ rcu_wait[e] = {}
  /\ rcu_pending' = rcu_pending \ {e}
  /\ freed' = freed \cup {e}
  /\ UNCHANGED <<list_vars, lock_vars, store_vars, show_vars, timer_vars,
                 rcu_wait, init_vars, exit_pc, hist_vars>>

----------------------------------------------------------------------------
\* rcu_linked_list_init.  spin_lock_init leaves the lock as DEFINE_SPINLOCK
\* made it.

\* A faulty variant of TimerStopped: del_timer, which does not wait for the callback.
TimerStoppedAsync == TRUE

\* del_timer_sync returns once the callback is not running.
TimerStopped == timer_pc = "idle"

\* kobject_create_and_add: the kobject, or NULL and goto timer_cleanup.
InitKobject ==
  /\ init_pc = "kobject_create_and_add"
  /\ \/ /\ init_created' = Append(init_created, "kobject")
        /\ init_pc' = "sysfs_create_group"
     \/ /\ init_pc' = "timer_cleanup"
        /\ UNCHANGED init_created
  /\ UNCHANGED <<list_vars, lock_vars, store_vars, show_vars, timer_vars,
                 rcu_vars, init_undone, exit_pc, hist_vars>>

\* sysfs_create_group: the attribute, or an error and goto sysfs_cleanup.
InitGroup ==
  /\ init_pc = "sysfs_create_group"
  /\ \/ /\ init_created' = Append(init_created, "group")
        /\ init_pc' = "setup_timer"
     \/ /\ init_pc' = "sysfs_cleanup"
        /\ UNCHANGED init_created
  /\ UNCHANGED <<list_vars, lock_vars, store_vars, show_vars, timer_vars,
                 rcu_vars, init_undone, exit_pc, hist_vars>>

\* setup_timer and mod_timer; return 0.
InitSetupTimer ==
  /\ init_pc = "setup_timer"
  /\ init_created' = Append(init_created, "timer")
  /\ removal_timer' = mod_timer(removal_timer)
  /\ init_pc' = "loaded"
  /\ UNCHANGED <<list_vars, lock_vars, store_vars, show_vars, timer_pc,
                 timer_entry, timer_cpu, rcu_vars, init_undone, exit_pc,
                 hist_vars>>

\* sysfs_cleanup: kobject_put(dog_kobj).
InitSysfsCleanup ==
  /\ init_pc = "sysfs_cleanup"
  /\ init_undone' = Append(init_undone, "kobject")
  /\ init_pc' = "timer_cleanup"
  /\ UNCHANGED <<list_vars, lock_vars, store_vars, show_vars, timer_vars,
                 rcu_vars, init_created, exit_pc, hist_vars>>

\* timer_cleanup: del_timer_sync(&removal_timer); return err.
InitTimerCleanup ==
  /\ init_pc = "timer_cleanup"
  /\ TimerStopped
  /\ init_undone' = Append(init_undone, "timer")
  /\ removal_timer' = FALSE
  /\ init_pc' = "failed"
  /\ UNCHANGED <<list_vars, lock_vars, store_vars, show_vars, timer_pc,
                 timer_entry, timer_cpu, rcu_vars, init_created, exit_pc,
                 hist_vars>>

InitStep ==
  \/ InitKobject
  \/ InitGroup
  \/ InitSetupTimer
  \/ InitSysfsCleanup
  \/ InitTimerCleanup

----------------------------------------------------------------------------
\* rcu_linked_list_exit.

\* rmmod calls the exit function.
ExitStart ==
  /\ init_pc = "loaded"
  /\ exit_pc = "loaded"
  /\ exit_pc' = "del_timer_sync"
  /\ UNCHANGED <<init_vars, list_vars, lock_vars, store_vars, show_vars, timer_vars,
                 rcu_vars, hist_vars>>

ExitDelTimerSync ==
  /\ exit_pc = "del_timer_sync"
  /\ TimerStopped
  /\ removal_timer' = FALSE
  /\ exit_pc' = "kobject_put"
  /\ UNCHANGED <<init_vars, list_vars, lock_vars, store_vars, show_vars, timer_pc,
                 timer_entry, timer_cpu, rcu_vars, hist_vars>>

\* kobject_put drops the last reference: the attribute is removed.
ExitKobjectPut ==
  /\ exit_pc = "kobject_put"
  /\ exit_pc' = "drain"
  /\ UNCHANGED <<init_vars, list_vars, lock_vars, store_vars, show_vars, timer_vars,
                 rcu_vars, hist_vars>>

\* The removal waits for the show and store calls in flight; the exit
\* function then returns.
ExitDrain ==
  /\ exit_pc = "drain"
  /\ \A w \in Writers : store_pc[w] = "idle"
  /\ \A r \in Readers : show_pc[r] = "idle"
  /\ exit_pc' = "done"
  /\ UNCHANGED <<init_vars, list_vars, lock_vars, store_vars, show_vars, timer_vars,
                 rcu_vars, hist_vars>>

ExitStep ==
  \/ ExitDelTimerSync
  \/ ExitKobjectPut
  \/ ExitDrain

----------------------------------------------------------------------------
Next ==
  \/ \E w \in Writers, raw \in Inputs : StoreBegin(w, raw)
  \/ \E w \in Writers : StoreNoMem(w)
  \/ \E w \in Writers : StoreStep(w)
  \/ \E r \in Readers : ShowLock(r)
  \/ \E r \in Readers : ShowStep(r)
  \/ \E c \in CPUs : TimerFire(c)
  \/ TimerStep
  \/ \E e \in Entries : RcuReclaim(e)
  \/ ExitStart
  \/ ExitStep

Spec == Init /\ [][Next]_vars

\* The stores and the timer callback alone, while the module stays loaded
\* and nobody reads: the contexts that take list_update_lock.  No step of a
\* show and no step of the exit function changes a variable the steps below
\* read.
LockNext ==
  \/ \E w \in Writers, raw \in Inputs : StoreBegin(w, raw)
  \/ \E w \in Writers : StoreNoMem(w)
  \/ \E w \in Writers : StoreStep(w)
  \/ \E c \in CPUs : TimerFire(c)
  \/ TimerStep
  \/ \E e \in Entries : RcuReclaim(e)

\* What the scheduling guarantees: a call in progress and the timer callback
\* keep running unless their CPU is taken or they spin; an armed timer
\* expires; the RCU core runs the callbacks whose grace period is over; the
\* spinlock is fair, so a spinner is not passed over for ever.  Whether a
\* store or a show is called, and whether the module is unloaded, is up to
\* the user.
LockFairness ==
  /\ \A w \in Writers : WF_vars(StoreStep(w) \/ StoreNoMem(w))
  /\ \A w \in Writers : SF_vars(StoreSpin(w))
  /\ WF_vars(\E c \in CPUs : TimerFire(c))
  /\ WF_vars(TimerStep)
  /\ SF_vars(TimerSpinLock)
  /\ \A e \in Entries : WF_vars(RcuReclaim(e))

LockSpec == Init /\ [][LockNext]_vars /\ LockFairness

\* The readers, the timer callback and the stores of one writer, while the
\* module stays loaded: the contexts a grace period involves.  A second
\* writer only adds entries the same way.
RcuWriters == 1..NumRcuWriters

RcuNext ==
  \/ \E w \in RcuWriters, raw \in Inputs : StoreBegin(w, raw)
  \/ \E w \in RcuWriters : StoreNoMem(w)
  \/ \E w \in RcuWriters : StoreStep(w)
  \/ \E r \in Readers : ShowLock(r)
  \/ \E r \in Readers : ShowStep(r)
  \/ \E c \in CPUs : TimerFire(c)
  \/ TimerStep
  \/ \E e \in Entries : RcuReclaim(e)

\* As LockFairness, and a show in progress keeps running: a read-side
\* critical section does not sleep.
RcuFairness ==
  /\ \A w \in RcuWriters : WF_vars(StoreStep(w) \/ StoreNoMem(w))
  /\ \A w \in RcuWriters : SF_vars(StoreSpin(w))
  /\ \A r \in Readers : WF_vars(ShowStep(r))
  /\ WF_vars(\E c \in CPUs : TimerFire(c))
  /\ WF_vars(TimerStep)
  /\ SF_vars(TimerSpinLock)
  /\ \A e \in Entries : WF_vars(RcuReclaim(e))

RcuSpec == Init /\ [][RcuNext]_vars /\ RcuFairness

\* The attribute alone, within one period of the timer: stores of every
\* input of the model, well-formed or not, and shows called while no store
\* is in progress.
WritersIdle == \A w \in Writers : store_pc[w] = "idle"
ReadersIdle == \A r \in Readers : show_pc[r] = "idle"

AttrNext ==
  \/ \E w \in Writers, raw \in StoreInputs : ReadersIdle /\ StoreBegin(w, raw)
  \/ \E w \in Writers : StoreNoMem(w)
  \/ \E w \in Writers : StoreStep(w)
  \/ \E w \in Writers : StoreReturnErr(w)
  \/ \E r \in Readers : WritersIdle /\ ShowLock(r)
  \/ \E r \in Readers : ShowStep(r)

StoreSpec == Init /\ [][AttrNext]_vars

\* Shows alone, of lists of every length up to MaxShowEntries.
ShowNext ==
  \/ \E r \in Readers : ShowLock(r)
  \/ \E r \in Readers : ShowStep(r)

ShowSpec == ShowInit /\ [][ShowNext]_vars

\* The module from insmod on: rcu_linked_list_init, each of its two calls
\* that can fail failing or not, and, once it returned 0, the readers, the
\* timer callback and the stores of one writer.
LoadNext ==
  \/ InitStep
  \/ RcuNext

LoadSpec == LoadInit /\ [][LoadNext]_vars

----------------------------------------------------------------------------
\* Helpers of the properties.

\* The position of entry e in the order of the appends (0: never appended).
Pos(e) == IF \E i \in 1..Len(appended) : appended[i] = e
            THEN CHOOSE i \in 1..Len(appended) : appended[i] = e
            ELSE 0

IsPrefix(s, t) == Len(s) <= Len(t) /\ \A i \in 1..Len(s) : s[i] = t[i]

NoDup(s) == \A i, j \in 1..Len(s) : i # j => s[i] # s[j]

\* The value the store leaves in training_easy for a parsed flag.
FlagValue(in) == IF in.flag # 0 THEN 1 ELSE 0

StoreInCS(w) == store_pc[w] \in {"list_add", "size", "unlock"}
TimerInCS == timer_pc \in {"list_first_entry", "list_del_rcu", "kfree_rcu", "spin_unlock"}

----------------------------------------------------------------------------
\* C1: no entry is freed while a read-side critical section that began
\* before its unlink is in progress, and no reader dereferences a freed
\* entry.
C1_NoUseAfterFree ==
  /\ ~uaf
  /\ \A e \in freed : pre_unlink[e] = {}
  /\ \A r \in Readers : show_pc[r] \in {"body", "next"} => show_entry[r] \notin freed

\* A reader stands on an entry that was unlinked under it and retired.
C1_Witness ==
  \E r \in Readers :
    /\ show_pc[r] = "next"
    /\ show_entry[r] \in rcu_pending
    /\ r \in pre_unlink[show_entry[r]]

----------------------------------------------------------------------------
\* C2: every line a reader formatted holds the final breed, age and
\* training_easy of its entry, and every published entry has its three
\* fields written.
C2_AllOrNothing ==
  /\ \A r \in Readers : \A i \in 1..Len(show_out[r]) :
       LET l == show_out[r][i] IN
         /\ l.breed = input_of[l.entry].breed
         /\ l.age = input_of[l.entry].age
         /\ l.training_easy = FlagValue(input_of[l.entry])
  /\ \A i \in 1..Len(appended) :
       LET e == appended[i] IN
         /\ breed[e] = input_of[e].breed
         /\ age[e] = input_of[e].age
         /\ training_easy[e] = FlagValue(input_of[e])

\* A reader formatted the entry of a store that has not returned yet.
C2_Witness ==
  \E r \in Readers, w \in Writers :
    /\ store_pc[w] \in {"size", "unlock"}
    /\ \E i \in 1..Len(show_out[r]) : show_out[r][i].entry = store_entry[w]

----------------------------------------------------------------------------
\* At most one context is inside a critical section and it owns the lock.
C3_MutexState ==
  /\ Cardinality({w \in Writers : StoreInCS(w)}) + (IF TimerInCS THEN 1 ELSE 0) <= 1
  /\ \A w \in Writers : StoreInCS(w) => list_update_lock = StoreCtx(w)
  /\ TimerInCS => list_update_lock = TimerCtx

\* A step that changes the links or the size is a step of the lock owner.
C3_MutationByOwner ==
  (dog_list' # dog_list \/ dog_list_size' # dog_list_size) =>
    \/ \E w \in Writers : store_pc'[w] # store_pc[w] /\ list_update_lock = StoreCtx(w)
    \/ timer_pc' # timer_pc /\ list_update_lock = TimerCtx

\* C3: at most one context is inside a critical section of
\* list_update_lock, it is the owner of the lock, and every step that
\* changes the links of dog_list or dog_list_size is taken by the owner.
C3_WriterExclusion == []C3_MutexState /\ [][C3_MutationByOwner]_vars

\* One store is inside and another store, on another CPU, spins.
C3_Witness ==
  \E w, o \in Writers :
    /\ w # o
    /\ store_pc[w] = "list_add"
    /\ store_pc[o] = "spin"
    /\ store_cpu[w] # store_cpu[o]

----------------------------------------------------------------------------
\* The callback spins on the CPU of the store that holds the lock.
TimerSpinsOnInterrupted ==
  /\ timer_pc = "spin_lock"
  /\ \E w \in Writers : list_update_lock = StoreCtx(w) /\ store_cpu[w] = timer_cpu

\* C4: the timer callback never spins on list_update_lock on the CPU of the
\* store that holds it, and every store and every callback that started to
\* take the lock gets it.
C4_NoDeadlock ==
  /\ [](~TimerSpinsOnInterrupted)
  /\ \A w \in Writers :
       (store_pc[w] \in {"irqsave", "spin"}) ~> (list_update_lock = StoreCtx(w))
  /\ (timer_pc = "spin_lock") ~> (list_update_lock = TimerCtx)


\* The callback spins while a store on another CPU holds the lock.
C4_Witness ==
  /\ timer_pc = "spin_lock"
  /\ \E w \in Writers : list_update_lock = StoreCtx(w) /\ store_cpu[w] # timer_cpu

----------------------------------------------------------------------------
\* C5: when nobody holds list_update_lock, dog_list_size is the number of
\* appends minus the number of removals, the number of linked entries.
C5_SizeAccurate ==
  list_update_lock = Unlocked =>
    /\ dog_list_size = Len(appended) - Len(unlinked)
    /\ dog_list_size = Cardinality(Linked)

----------------------------------------------------------------------------
\* C6: the entries one traversal visits are in the order of their appends,
\* none twice.
C6_AppendOrder ==
  \A r \in Readers : \A i, j \in 1..Len(show_out[r]) :
    /\ Pos(show_out[r][i].entry) > 0
    /\ i < j => Pos(show_out[r][i].entry) < Pos(show_out[r][j].entry)

\* A traversal visited two entries, the first of them unlinked meanwhile.
C6_Witness ==
  \E r \in Readers :
    /\ Len(show_out[r]) = 2
    /\ show_out[r][1].entry \in Range(unlinked)

----------------------------------------------------------------------------
\* The unlinks and the retirements follow the order of the appends.
C7_OrderState == IsPrefix(unlinked, appended) /\ IsPrefix(retired, appended)

\* What one step of the callback does to the list.
C7_TickStep ==
  /\ (timer_pc = "list_del_rcu" /\ timer_pc' # timer_pc) =>
       /\ Len(ListSeq(dog_list)) > 0
       /\ ListSeq(dog_list') = Tail(ListSeq(dog_list))
       /\ unlinked' = Append(unlinked, Head(ListSeq(dog_list)))
       /\ \A e \in Linked : Pos(Head(ListSeq(dog_list))) <= Pos(e)
  /\ (timer_pc = "list_empty" /\ timer_pc' = "mod_timer") => Linked = {}
  /\ (timer_pc # "list_del_rcu" \/ timer_pc' = timer_pc) => unlinked' = unlinked

\* C7: the callback unlinks, when the list is not empty, exactly one entry,
\* the one appended first among the linked ones; it skips the removal only
\* when it saw the list empty; the entries are unlinked and retired in the
\* order of their appends.
C7_OldestFirst == []C7_OrderState /\ [][C7_TickStep]_vars

\* The entry allocated second was appended first and retired first.
C7_Witness == retired = <<2, 1>>

----------------------------------------------------------------------------
\* C8: an entry is retired once, in the critical section that unlinked it;
\* a linked entry is neither pending nor freed; a freed entry is not pending.
C8_RetireOnce ==
  /\ NoDup(retired)
  /\ Range(retired) \subseteq Range(unlinked)
  /\ (Range(unlinked) # Range(retired)) =>
       (timer_pc = "kfree_rcu" /\ list_update_lock = TimerCtx)
  /\ Linked \cap (Range(retired) \cup rcu_pending \cup freed) = {}
  /\ rcu_pending \cap freed = {}
  /\ rcu_pending \cup freed = Range(retired) \cap Entries

\* The callback retired an entry and still holds the lock, another entry
\* is linked.
C8_Witness ==
  /\ timer_pc = "spin_unlock"
  /\ timer_entry \in rcu_pending
  /\ Linked # {}

----------------------------------------------------------------------------
\* C9: every entry given to kfree_rcu is freed in the end, readers leaving
\* their critical sections.
C9_EventuallyFreed ==
  \A e \in Entries : (e \in rcu_pending) ~> (e \in freed)

\* An entry is pending and its grace period waits for a reader.
C9_Witness == \E e \in rcu_pending : rcu_wait[e] # {}

----------------------------------------------------------------------------
----------------------------------------------------------------------------
\* C11: when the exit function has returned, every entry dog_attr_store
\* allocated has been freed: none is still linked, none is still pending.
C11_NoLeak == exit_pc = "done" => (1..nalloc) \subseteq freed

----------------------------------------------------------------------------
\* After del_timer_sync returned the callback is not running and the timer
\* is not armed.
C12_TimerDead ==
  exit_pc \in {"kobject_put", "drain", "done"} =>
    timer_pc = "idle" /\ ~removal_timer

\* The exit function stays in del_timer_sync while the callback runs, and no
\* callback starts once del_timer_sync returned.
C12_ExitWaits ==
  /\ (exit_pc = "del_timer_sync" /\ timer_pc # "idle") => exit_pc' = exit_pc
  /\ (exit_pc \in {"kobject_put", "drain", "done"}) => timer_pc' = "idle"

\* C12: del_timer_sync lets a callback in flight finish before the exit
\* function goes on; once it returned no callback is running and none
\* starts again, although every callback re-arms the timer.
C12_SyncCancel == []C12_TimerDead /\ [][C12_ExitWaits]_vars

\* The exit function waits in del_timer_sync for a callback that is about
\* to re-arm the timer.
C12_Witness == exit_pc = "del_timer_sync" /\ timer_pc = "mod_timer"

----------------------------------------------------------------------------
\* The callback is on the path of the empty list: it saw the list empty, or
\* it stands before the emptiness test with the list empty.
OnEmptyPath ==
  \/ timer_pc = "list_empty" /\ list_empty(dog_list)
  \/ timer_pc = "mod_timer" /\ timer_entry = HEAD

\* A step of the callback on the path of the empty list changes neither the
\* list, nor the size, nor the pending set, nor the lock; the callback
\* returns only through mod_timer, with the timer armed.
C13_TickStep ==
  /\ (OnEmptyPath /\ timer_pc' # timer_pc) =>
       /\ timer_pc' \in {"mod_timer", "idle"}
       /\ UNCHANGED <<dog_list, dog_list_size, rcu_pending, retired, unlinked,
                      list_update_lock>>
  /\ (timer_pc # "idle" /\ timer_pc' = "idle") =>
       timer_pc = "mod_timer" /\ removal_timer'

\* C13: a tick that finds the list empty leaves dog_list, dog_list_size and
\* the pending set as they were and does not take list_update_lock; every
\* invocation of the callback, whatever it found, ends with the timer
\* re-armed.
C13_EmptyTick == [][C13_TickStep]_vars

\* A tick emptied the list and a later tick found it empty.
C13_Witness ==
  /\ timer_pc = "mod_timer"
  /\ timer_entry = HEAD
  /\ list_empty(dog_list)
  /\ Len(unlinked) > 0

----------------------------------------------------------------------------
\* C19: the callback reads the first entry, under the lock, of a list that
\* is not empty, although it tested list_empty before it took the lock: the
\* list cannot become empty in between, and what the callback unlinks and
\* retires is an entry, never the head.
C19_FirstEntryExists ==
  /\ timer_pc \in {"spin_lock", "list_first_entry"} => ~list_empty(dog_list)
  /\ timer_pc \in {"list_del_rcu", "kfree_rcu", "spin_unlock"} =>
       timer_entry \in Entries
  /\ HEAD \notin Range(unlinked) \cup Range(retired)

\* A store changes the list between the emptiness test of the callback and
\* its spin_lock.
C19_Witness ==
  /\ timer_pc = "spin_lock"
  /\ \E w \in Writers : store_pc[w] = "size" /\ list_update_lock = StoreCtx(w)

----------------------------------------------------------------------------
\* What the claims about the input say of a line, read off its text.

\* The fields of a line as its user wrote it.
Fields(raw) == strsep(raw)

\* An integer in decimal: an optional sign and digits, with the newline
\* that ends a line or without.
IsInteger(s) ==
  LET b == IF Len(s) > 0 /\ s[1] \in {"-", "+"} THEN Tail(s) ELSE s
      c == IF Len(b) > 0 /\ b[Len(b)] = "\n" THEN SubSeq(b, 1, Len(b) - 1) ELSE b
  IN Len(c) > 0 /\ \A i \in 1..Len(c) : c[i] \in Range(Digits)

\* Fewer than three fields, or an age or a flag that is no integer.
Malformed(raw) ==
  LET f == Fields(raw) IN
  \/ Len(f) < 3
  \/ ~IsInteger(f[2])
  \/ ~IsInteger(f[3])

\* A call of dog_attr_store is in progress for writer w.
StoreBusy(w) == store_pc[w] # "idle"

\* C14: a store whose input has fewer than three fields, or an age or a flag
\* that is no integer, returns an error and leaves dog_list and
\* dog_list_size as they were: such a call is on its way to return the
\* error, and no entry of such an input is ever appended.
C14_MalformedRejected ==
  /\ \A w \in Writers :
       (StoreBusy(w) /\ Malformed(store_in[w].raw)) => store_pc[w] = "return_err"
  /\ \A i \in 1..Len(appended) : ~Malformed(input_of[appended[i]].raw)

\* The same for the inputs kstrndup copies whole and the loop of strsep
\* stores within dog_attr.
C14_WithinLimits ==
  /\ \A w \in Writers :
       (/\ StoreBusy(w)
        /\ Malformed(store_in[w].raw)
        /\ Len(store_in[w].raw) <= DOG_ENTRY_NBYTES
        /\ Len(Fields(store_in[w].raw)) <= DogAttrSlots) => store_pc[w] = "return_err"
  /\ \A i \in 1..Len(appended) :
       LET raw == input_of[appended[i]].raw IN
       (Len(raw) <= DOG_ENTRY_NBYTES /\ Len(Fields(raw)) <= DogAttrSlots) =>
         ~Malformed(raw)

----------------------------------------------------------------------------
\* C15: a store whose input has more than three fields returns an error and
\* leaves dog_list and dog_list_size as they were.
C15_TooManyRejected ==
  /\ \A w \in Writers :
       (StoreBusy(w) /\ Len(Fields(store_in[w].raw)) > 3) =>
         store_pc[w] = "return_err"
  /\ \A i \in 1..Len(appended) : Len(Fields(input_of[appended[i]].raw)) <= 3

----------------------------------------------------------------------------
\* A number as %d prints it: no plus sign, no leading zero, no minus sign
\* before zero.
RECURSIVE StripZeros(_)
StripZeros(s) == IF Len(s) > 1 /\ s[1] = "0" THEN StripZeros(Tail(s)) ELSE s

Canonical(s) ==
  LET z == StripZeros(IF s[1] \in {"-", "+"} THEN Tail(s) ELSE s) IN
  IF s[1] = "-" /\ z # <<"0">> THEN <<"-">> \o z ELSE z

\* The line the round trip promises for a well-formed input.
ExpectedLine(raw) ==
  LET f == Fields(raw) IN
  f[1] \o <<" ">> \o Canonical(f[2]) \o <<" ">>
    \o (IF f[3][1] = "1" THEN <<"t", "r", "u", "e">> ELSE <<"f", "a", "l", "s", "e">>)
    \o <<"\n">>

\* breed,age,flag: three fields, the age a number, the flag 0 or 1, the
\* line ended by a newline or not, and the formatted line, with its
\* terminator, within DOG_ENTRY_NBYTES.
WellFormed(raw) ==
  LET f == Fields(raw) IN
  /\ Len(f) = 3
  /\ IsInteger(f[2])
  /\ f[2][Len(f[2])] # "\n"
  /\ f[3] \in {<<"0">>, <<"1">>, <<"0", "\n">>, <<"1", "\n">>}
  /\ Len(ExpectedLine(raw)) < DOG_ENTRY_NBYTES

\* The inputs of the entries appended so far, in the order of the appends.
StoredInputs == [i \in 1..Len(appended) |-> input_of[appended[i]].raw]

\* C16: a show called after k stores of well-formed inputs, before any
\* removal, returns k lines in the order of the stores, one after the other
\* from offset 0, each equal to "<breed> <age> true" for flag 1 and
\* "<breed> <age> false" for flag 0, and returns their total length.
C16_RoundTrip ==
  \A r \in Readers :
    (show_pc[r] = "unlock" /\ \A i \in 1..Len(appended) : WellFormed(StoredInputs[i])) =>
      /\ Len(show_out[r]) = Len(appended)
      /\ \A i \in 1..Len(appended) :
           /\ show_out[r][i].entry = appended[i]
           /\ ShowWritten(show_out[r], i) = ExpectedLine(StoredInputs[i])
           /\ ShowStart(show_out[r], i + 1)
                = ShowStart(show_out[r], i) + Len(ExpectedLine(StoredInputs[i]))
      /\ ShowStart(show_out[r], 1) = 0
      /\ nbytes(show_out[r]) = ShowStart(show_out[r], Len(appended) + 1)

\* A show returns two lines: that of a negative age written with a leading
\* zero and a newline, then that of a line that fills DOG_ENTRY_NBYTES.
C16_Witness ==
  \E r \in Readers :
    /\ show_pc[r] = "unlock"
    /\ Len(show_out[r]) = 2
    /\ Len(appended) = 2
    /\ \A i \in 1..2 : WellFormed(StoredInputs[i])
    /\ Fields(StoredInputs[1])[2] = <<"-", "0", "5">>
    /\ Len(ExpectedLine(StoredInputs[2])) = DOG_ENTRY_NBYTES - 1

----------------------------------------------------------------------------
\* C17: what dog_attr_show returns is the number of bytes it wrote, and
\* every line starts right after the last byte written of the line before,
\* also when a line is longer than DOG_ENTRY_NBYTES and is cut.
C17_ReturnsWritten ==
  \A r \in Readers :
    show_pc[r] = "unlock" =>
      /\ \A i \in 1..Len(show_out[r]) :
           ShowStart(show_out[r], i + 1)
             = ShowStart(show_out[r], i) + Len(ShowWritten(show_out[r], i))
      /\ nbytes(show_out[r]) = ShowStart(show_out[r], Len(show_out[r]) + 1)

----------------------------------------------------------------------------
Reverse(s) == [i \in 1..Len(s) |-> s[Len(s) + 1 - i]]

\* C18: when rcu_linked_list_init fails it has released, in the reverse
\* order of their creation, exactly what it had created; it never releases
\* or cancels what it has not created, the timer in particular; no timer is
\* left armed.
C18_UnwindExact ==
  /\ Range(init_undone) \subseteq Range(init_created)
  /\ init_pc = "failed" =>
       /\ init_undone = Reverse(init_created)
       /\ ~removal_timer

----------------------------------------------------------------------------
\* C20: dog_attr_show writes no byte at or beyond PAGE_SIZE, the size of
\* its buffer: the terminator of the line it wrote last, the last byte of
\* that call of snprintf, is below PAGE_SIZE.
C20_WithinPage ==
  \A r \in Readers :
    Len(show_out[r]) > 0 =>
      ShowStart(show_out[r], Len(show_out[r]))
        + Len(ShowWritten(show_out[r], Len(show_out[r]))) < PAGE_SIZE

====
